---- MODULE Spec2Model ----
(***************************************************************************)
(* A model of scripts/update-conversion-rates.py: the transformation of    *)
(* BSI observations into a date-keyed rate mapping (transform_bsi_data),   *)
(* the merge of that mapping into the persisted rate table (merge_rates),  *)
(* and the command-line pipeline that fetches, transforms, loads, merges   *)
(* and saves (main).                                                       *)
(*                                                                         *)
(* Three specifications share the module:                                  *)
(*   SpecTransform  the loop of transform_bsi_data over one input list;    *)
(*   SpecMerge      calls of merge_rates, the result of one call being     *)
(*                  merged again with the same updates;                    *)
(*   SpecMain       one run of main against a rates file.                  *)
(***************************************************************************)
EXTENDS Integers, Sequences, FiniteSets, TLC

VARIABLES
    \* transform_bsi_data
    bsi_data,           \* the argument: a list of dicts
    idx,                \* position of the for loop in bsi_data
    rates_by_date,      \* the dict being built
    tpc,                \* "loop" | "returned" ("idle" when not run)
    \* merge_rates
    existing,           \* the argument `existing`: a list of records
    new_rates_by_date,  \* the argument `new_rates_by_date`: a dict
    merged,             \* the list returned by the call
    previous,           \* the list returned by the call before this one
    calls,              \* number of calls of merge_rates made so far
    mpc,                \* "call" | "returned" ("idle" when not run)
    \* main
    argv,               \* sys.argv
    rates_file,         \* the file at CONVERSION_RATES_FILE
    file_before,        \* rates_file as it was when the run started
    response,           \* what the BSI API will answer in this run
    fetched,            \* bsi_data of main
    new_rates,          \* new_rates of main
    existing_rates,     \* existing_rates of main
    merged_rates,       \* merged_rates of main
    stdout,             \* the messages printed so far
    writes,             \* number of times the rates file was written
    exit_status,        \* the process exit status once it has exited
    pc                  \* position of main

tvars == <<bsi_data, idx, rates_by_date, tpc>>
mvars == <<existing, new_rates_by_date, merged, previous, calls, mpc>>
pvars == <<argv, rates_file, file_before, response, fetched, new_rates,
           existing_rates, merged_rates, stdout, writes, exit_status, pc>>
vars == <<tvars, mvars, pvars>>

-----------------------------------------------------------------------------
(* Bounds of the model.                                                    *)

\* longest list of observations given to transform_bsi_data
MaxObs == 2
\* longest `existing` list given to the first call of merge_rates
MaxExisting == 3
\* calls of merge_rates in a row, each on the result of the one before
MaxCalls == 2
\* longest year argument on the command line, in characters
MaxArgLen == 2

-----------------------------------------------------------------------------
(* Python values.  A value is None, a str (a sequence of code points) or a *)
(* number; rates are numbers, modelled as integers.                        *)

PyNone == [t |-> "None", s |-> <<>>, n |-> 0]
PyStr(s) == [t |-> "str", s |-> s, n |-> 0]
PyNum(n) == [t |-> "num", s |-> <<>>, n |-> n]

\* bool(v): None, "" and 0 are falsy.
Truthy(v) ==
    CASE v.t = "None" -> FALSE
      [] v.t = "str" -> v.s # <<>>
      [] v.t = "num" -> v.n # 0

\* A dict is a function from its keys; {} is the function with no keys.
EmptyDict == [k \in {} |-> PyNone]

\* d[k] = v
DictSet(d, k, v) == [x \in DOMAIN d \cup {k} |-> IF x = k THEN v ELSE d[x]]

\* entry.get(k): the value under k, None when the key is missing.
Get(entry, k) == IF k \in DOMAIN entry THEN entry[k] ELSE PyNone

\* a < b for two str: lexicographic order on the code points.
RECURSIVE StrLess(_, _)
StrLess(a, b) ==
    IF b = <<>> THEN FALSE
    ELSE IF a = <<>> THEN TRUE
    ELSE IF Head(a) # Head(b) THEN Head(a) < Head(b)
    ELSE StrLess(Tail(a), Tail(b))

\* a < b for two dict keys that are str.
KeyLess(a, b) == StrLess(a.s, b.s)

-----------------------------------------------------------------------------
(* The data the specifications draw their inputs from.                     *)

\* dates "1", "12" and "2": "1" < "12" < "2"
D1 == PyStr(<<49>>)
D12 == PyStr(<<49, 50>>)
D2 == PyStr(<<50>>)
USD == PyStr(<<85>>)
GBP == PyStr(<<71>>)

\* What an observation may hold under each of its keys.
FieldValues(k) ==
    CASE k = "date" -> {PyNone, D1, D2}
      [] k = "code" -> {PyStr(<<>>), USD, GBP}
      [] k = "value" -> {PyNum(0), PyNum(1), PyNum(2)}

\* Keys an observation may lack altogether.
OptionalKeys == {"date", "value"}

\* The observations: dicts with some or all of the keys date, code, value.
Observations ==
    UNION { { e \in [({"date", "code", "value"} \ missing) ->
                        UNION {FieldValues(k) : k \in {"date", "code", "value"}}] :
                \A k \in DOMAIN e : e[k] \in FieldValues(k) } :
            missing \in SUBSET OptionalKeys }

ObservationLists == UNION { [1..n -> Observations] : n \in 0..MaxObs }

-----------------------------------------------------------------------------
(* transform_bsi_data                                                      *)

\* The check without the value: all([date, code]).
EntryValid_IgnoringValue(entry) ==
    /\ Truthy(Get(entry, "date"))
    /\ Truthy(Get(entry, "code"))

\* all([date, code, value])
EntryValid(entry) ==
    /\ Truthy(Get(entry, "date"))
    /\ Truthy(Get(entry, "code"))
    /\ Truthy(Get(entry, "value"))

\* The store that keeps a value already recorded for the date and code.
StoreRate_KeepFirst(rbd, date, code, value) ==
    LET rates == IF date \in DOMAIN rbd THEN rbd[date] ELSE EmptyDict
    IN IF code \in DOMAIN rates THEN rbd
       ELSE DictSet(rbd, date, DictSet(rates, code, value))

\* rates_by_date[date][code] = value, the date's dict created when absent
StoreRate(rbd, date, code, value) ==
    LET rates == IF date \in DOMAIN rbd THEN rbd[date] ELSE EmptyDict
    IN DictSet(rbd, date, DictSet(rates, code, value))

\* One iteration of the for loop.
TransformEntry(rbd, entry) ==
    IF ~EntryValid(entry) THEN rbd
    ELSE StoreRate(rbd, Get(entry, "date"), Get(entry, "code"), Get(entry, "value"))

\* The whole call.
RECURSIVE TransformFrom(_, _, _)
TransformFrom(rbd, data, i) ==
    IF i > Len(data) THEN rbd
    ELSE TransformFrom(TransformEntry(rbd, data[i]), data, i + 1)

transform_bsi_data(data) == TransformFrom(EmptyDict, data, 1)

-----------------------------------------------------------------------------
(* merge_rates                                                             *)

\* the rates of one day
RatesA == DictSet(DictSet(EmptyDict, USD, PyNum(1)), GBP, PyNum(2))
RatesB == DictSet(EmptyDict, USD, PyNum(2))
RatesC == DictSet(EmptyDict, GBP, PyNum(1))
RateSets == {RatesA, RatesB, RatesC}
Dates == {D1, D12, D2}

\* the records of conversion-rates.json: {"date": ..., "rates": {...}}
RateRecords == [date : Dates, rates : RateSets]

\* lists of records, in any order and with dates repeated
ExistingLists == UNION { [1..n -> RateRecords] : n \in 0..MaxExisting }

\* dicts from some of the dates to their rates
UpdateMaps == UNION { [D -> RateSets] : D \in SUBSET Dates }

\* {entry["date"]: entry["rates"] for entry in existing}, from entry i on
RECURSIVE RekeyFrom(_, _, _)
RekeyFrom(dict, list, i) ==
    IF i > Len(list) THEN dict
    ELSE RekeyFrom(DictSet(dict, list[i]["date"], list[i]["rates"]), list, i + 1)

\* The re-keying that starts at the second entry.
Rekey_SkipFirst(list) == RekeyFrom(EmptyDict, list, 2)

\* The re-keying in which the first record of a date wins.
RECURSIVE RekeyKeepFirstFrom(_, _, _)
RekeyKeepFirstFrom(dict, list, i) ==
    IF i > Len(list) THEN dict
    ELSE RekeyKeepFirstFrom(
            IF list[i]["date"] \in DOMAIN dict THEN dict
            ELSE DictSet(dict, list[i]["date"], list[i]["rates"]),
            list, i + 1)

Rekey_KeepFirst(list) == RekeyKeepFirstFrom(EmptyDict, list, 1)

\* existing_by_date = {entry["date"]: entry["rates"] for entry in existing}
Rekey(list) == RekeyFrom(EmptyDict, list, 1)

\* The update that merges the codes of a date instead of replacing its rates.
ApplyUpdates_FieldMerge(by_date, updates) ==
    [d \in DOMAIN by_date \cup DOMAIN updates |->
        IF d \notin DOMAIN updates THEN by_date[d]
        ELSE IF d \notin DOMAIN by_date THEN updates[d]
        ELSE [c \in DOMAIN by_date[d] \cup DOMAIN updates[d] |->
                IF c \in DOMAIN updates[d] THEN updates[d][c] ELSE by_date[d][c]]]

\* The update that keeps only the dates of the updates.
ApplyUpdates_OnlyUpdates(by_date, updates) == updates

\* for date, rates in new_rates_by_date.items(): existing_by_date[date] = rates
ApplyUpdates(by_date, updates) ==
    [d \in DOMAIN by_date \cup DOMAIN updates |->
        IF d \in DOMAIN updates THEN updates[d] ELSE by_date[d]]

\* The sort without reverse=True.
RECURSIVE SortItems_Ascending(_)
SortItems_Ascending(dict) ==
    IF DOMAIN dict = {} THEN <<>>
    ELSE LET low == CHOOSE k \in DOMAIN dict :
                        \A x \in DOMAIN dict \ {k} : KeyLess(k, x)
         IN <<[date |-> low, rates |-> dict[low]]>>
            \o SortItems_Ascending([x \in DOMAIN dict \ {low} |-> dict[x]])

\* [{"date": date, "rates": rates}
\*  for date, rates in sorted(existing_by_date.items(), reverse=True)]
\* The keys of a dict differ, so the order of the items is that of the keys.
RECURSIVE SortItems(_)
SortItems(dict) ==
    IF DOMAIN dict = {} THEN <<>>
    ELSE LET top == CHOOSE k \in DOMAIN dict :
                        \A x \in DOMAIN dict \ {k} : KeyLess(x, k)
         IN <<[date |-> top, rates |-> dict[top]]>>
            \o SortItems([x \in DOMAIN dict \ {top} |-> dict[x]])

merge_rates(list, updates) == SortItems(ApplyUpdates(Rekey(list), updates))

-----------------------------------------------------------------------------
(* The variables of a part that a specification does not run.              *)

TransformIdle ==
    /\ bsi_data = <<>>
    /\ idx = 0
    /\ rates_by_date = EmptyDict
    /\ tpc = "idle"

MergeIdle ==
    /\ existing = <<>>
    /\ new_rates_by_date = EmptyDict
    /\ merged = <<>>
    /\ previous = <<>>
    /\ calls = 0
    /\ mpc = "idle"

MainIdle ==
    /\ argv = <<>>
    /\ rates_file = [state |-> "absent", content |-> <<>>]
    /\ file_before = [state |-> "absent", content |-> <<>>]
    /\ response = [kind |-> "none", success |-> FALSE, data |-> <<>>]
    /\ fetched = <<>>
    /\ new_rates = EmptyDict
    /\ existing_rates = <<>>
    /\ merged_rates = <<>>
    /\ stdout = <<>>
    /\ writes = 0
    /\ exit_status = -1
    /\ pc = "idle"

-----------------------------------------------------------------------------
(* The loop of transform_bsi_data                                          *)

InitTransform ==
    /\ bsi_data \in ObservationLists
    /\ idx = 1
    /\ rates_by_date = EmptyDict
    /\ tpc = "loop"
    /\ MergeIdle
    /\ MainIdle

\* An entry with a falsy date, code or value: continue.
TransformSkip ==
    /\ tpc = "loop"
    /\ idx <= Len(bsi_data)
    /\ ~EntryValid(bsi_data[idx])
    /\ idx' = idx + 1
    /\ UNCHANGED <<bsi_data, rates_by_date, tpc, mvars, pvars>>

\* A valid entry: its value is stored under its date and code.
TransformStore ==
    /\ tpc = "loop"
    /\ idx <= Len(bsi_data)
    /\ EntryValid(bsi_data[idx])
    /\ rates_by_date' = TransformEntry(rates_by_date, bsi_data[idx])
    /\ idx' = idx + 1
    /\ UNCHANGED <<bsi_data, tpc, mvars, pvars>>

\* The loop is over: return rates_by_date.
TransformReturn ==
    /\ tpc = "loop"
    /\ idx > Len(bsi_data)
    /\ tpc' = "returned"
    /\ UNCHANGED <<bsi_data, idx, rates_by_date, mvars, pvars>>

NextTransform == TransformSkip \/ TransformStore \/ TransformReturn

SpecTransform == InitTransform /\ [][NextTransform]_vars

-----------------------------------------------------------------------------
(* Calls of merge_rates                                                    *)

InitMerge ==
    /\ existing \in ExistingLists
    /\ new_rates_by_date \in UpdateMaps
    /\ merged = <<>>
    /\ previous = <<>>
    /\ calls = 0
    /\ mpc = "call"
    /\ TransformIdle
    /\ MainIdle

\* The call that sorts `existing` itself and returns it.
MergeCall_SortsInPlace ==
    /\ mpc = "call"
    /\ merged' = merge_rates(existing, new_rates_by_date)
    /\ existing' = merged'
    /\ calls' = calls + 1
    /\ mpc' = "returned"
    /\ UNCHANGED <<new_rates_by_date, previous, tvars, pvars>>

\* merged = merge_rates(existing, new_rates_by_date)
MergeCall ==
    /\ mpc = "call"
    /\ merged' = merge_rates(existing, new_rates_by_date)
    /\ calls' = calls + 1
    /\ mpc' = "returned"
    /\ UNCHANGED <<existing, new_rates_by_date, previous, tvars, pvars>>

\* The list returned becomes the `existing` of the next call, as the file
\* main has saved is what the next run loads; the updates are the same.
MergeAgain ==
    /\ mpc = "returned"
    /\ calls < MaxCalls
    /\ existing' = merged
    /\ previous' = merged
    /\ mpc' = "call"
    /\ UNCHANGED <<new_rates_by_date, merged, calls, tvars, pvars>>

NextMerge == MergeCall \/ MergeAgain

SpecMerge == InitMerge /\ [][NextMerge]_vars

-----------------------------------------------------------------------------
(* main                                                                    *)

\* the characters of a year argument: " ", "-", "2", "_" and "x"
ArgChars == {32, 45, 50, 95, 120}

\* sys.argv: the script alone, or the script and one argument
ArgvLists ==
    {<<PyStr(<<115>>)>>}
        \cup { <<PyStr(<<115>>), PyStr(a)>> :
                a \in UNION { [1..n -> ArgChars] : n \in 0..MaxArgLen } }

\* s without the white space at its two ends
RECURSIVE Strip(_)
Strip(s) ==
    IF s = <<>> THEN s
    ELSE IF Head(s) = 32 THEN Strip(Tail(s))
    ELSE IF s[Len(s)] = 32 THEN Strip(SubSeq(s, 1, Len(s) - 1))
    ELSE s

\* int(s) returns: s is, between white space, an optional sign and decimal
\* digits, single underscores allowed between digits.  Otherwise ValueError.
ParsesAsInt(s) ==
    LET t == Strip(s)
        u == IF t # <<>> /\ Head(t) \in {43, 45} THEN Tail(t) ELSE t
    IN /\ u # <<>>
       /\ \A i \in 1..Len(u) : u[i] \in 48..57 \cup {95}
       /\ u[1] # 95
       /\ u[Len(u)] # 95
       /\ \A i \in 1..(Len(u) - 1) : ~(u[i] = 95 /\ u[i + 1] = 95)

\* what conversion-rates.json may hold when a run starts
FileTables ==
    { <<>>,
      <<[date |-> D1, rates |-> RatesA]>>,
      <<[date |-> D1, rates |-> RatesA], [date |-> D2, rates |-> RatesB]>>,
      <<[date |-> D2, rates |-> RatesB], [date |-> D1, rates |-> RatesA]>>,
      <<[date |-> D1, rates |-> RatesA], [date |-> D1, rates |-> RatesC]>> }

\* the file: absent, a JSON list of records, or something json.load rejects
Files ==
    { [state |-> "absent", content |-> <<>>],
      [state |-> "garbage", content |-> <<>>] }
        \cup { [state |-> "json", content |-> c] : c \in FileTables }

\* the "data" list of an answer of the BSI API
ObsUSD1 == [date |-> D1, code |-> USD, value |-> PyNum(1)]
ObsUSD2 == [date |-> D2, code |-> USD, value |-> PyNum(2)]
ObsGBP2 == [date |-> D2, code |-> GBP, value |-> PyNum(1)]
ObsZero == [date |-> D12, code |-> USD, value |-> PyNum(0)]
DataLists ==
    { <<>>, <<ObsUSD1>>, <<ObsUSD2, ObsGBP2>>, <<ObsZero>>, <<ObsZero, ObsUSD1>> }

\* what urlopen and json.loads give: URLError, another exception, or the
\* decoded answer with its "success" and "data"
Responses ==
    { [kind |-> "URLError", success |-> FALSE, data |-> <<>>],
      [kind |-> "exception", success |-> FALSE, data |-> <<>>] }
        \cup { [kind |-> "json", success |-> FALSE, data |-> d] : d \in DataLists }
        \cup { [kind |-> "json", success |-> TRUE, data |-> d] : d \in DataLists }

\* fetch_rates_for_year(year), when it returns
fetch_rates_for_year(answer) ==
    IF answer.kind = "URLError" THEN <<>>
    ELSE IF ~answer.success THEN <<>>
    ELSE answer.data

\* what fetch_rates_for_year prints
FetchMessages(answer) ==
    <<"Fetching rates from">>
        \o (IF answer.kind = "URLError" THEN <<"Error fetching data">>
            ELSE IF ~answer.success THEN <<"API returned error">>
            ELSE <<>>)

InitMain ==
    /\ argv \in ArgvLists
    /\ rates_file \in Files
    /\ file_before = rates_file
    /\ response \in Responses
    /\ fetched = <<>>
    /\ new_rates = EmptyDict
    /\ existing_rates = <<>>
    /\ merged_rates = <<>>
    /\ stdout = <<>>
    /\ writes = 0
    /\ exit_status = -1
    /\ pc = "year"
    /\ TransformIdle
    /\ MergeIdle

\* int(sys.argv[1]) raises ValueError: sys.exit(1)
MainInvalidYear ==
    /\ pc = "year"
    /\ Len(argv) > 1
    /\ ~ParsesAsInt(argv[2].s)
    /\ stdout' = stdout \o <<"Invalid year">>
    /\ exit_status' = 1
    /\ pc' = "exited"
    /\ UNCHANGED <<argv, rates_file, file_before, response, fetched, new_rates,
                   existing_rates, merged_rates, writes, tvars, mvars>>

\* the year is the argument, or the current year when there is none
MainYear ==
    /\ pc = "year"
    /\ Len(argv) > 1 => ParsesAsInt(argv[2].s)
    /\ stdout' = stdout \o <<"Updating conversion rates">>
    /\ pc' = "fetch"
    /\ UNCHANGED <<argv, rates_file, file_before, response, fetched, new_rates,
                   existing_rates, merged_rates, writes, exit_status, tvars, mvars>>

\* The fetch of no data that goes on to the transformation.
MainNoData_GoesOn ==
    /\ pc = "fetch"
    /\ response.kind # "exception"
    /\ fetch_rates_for_year(response) = <<>>
    /\ fetched' = <<>>
    /\ stdout' = stdout \o FetchMessages(response) \o <<"No data fetched from API">>
    /\ pc' = "transform"
    /\ UNCHANGED <<argv, rates_file, file_before, response, new_rates,
                   existing_rates, merged_rates, writes, exit_status, tvars, mvars>>

\* fetch_rates_for_year returns nothing: sys.exit(1)
MainNoData ==
    /\ pc = "fetch"
    /\ response.kind # "exception"
    /\ fetch_rates_for_year(response) = <<>>
    /\ fetched' = <<>>
    /\ stdout' = stdout \o FetchMessages(response) \o <<"No data fetched from API">>
    /\ exit_status' = 1
    /\ pc' = "exited"
    /\ UNCHANGED <<argv, rates_file, file_before, response, new_rates,
                   existing_rates, merged_rates, writes, tvars, mvars>>

\* urlopen, read or json.loads raises something that is no URLError: nothing
\* catches it and the interpreter exits with status 1
MainFetchRaises ==
    /\ pc = "fetch"
    /\ response.kind = "exception"
    /\ stdout' = stdout \o <<"Fetching rates from">>
    /\ exit_status' = 1
    /\ pc' = "exited"
    /\ UNCHANGED <<argv, rates_file, file_before, response, fetched, new_rates,
                   existing_rates, merged_rates, writes, tvars, mvars>>

\* bsi_data = fetch_rates_for_year(year), with entries
MainFetch ==
    /\ pc = "fetch"
    /\ response.kind # "exception"
    /\ fetch_rates_for_year(response) # <<>>
    /\ fetched' = fetch_rates_for_year(response)
    /\ stdout' = stdout \o FetchMessages(response) \o <<"Fetched">>
    /\ pc' = "transform"
    /\ UNCHANGED <<argv, rates_file, file_before, response, new_rates,
                   existing_rates, merged_rates, writes, exit_status, tvars, mvars>>

\* new_rates = transform_bsi_data(bsi_data)
MainTransform ==
    /\ pc = "transform"
    /\ new_rates' = transform_bsi_data(fetched)
    /\ stdout' = stdout \o <<"Transformed">>
    /\ pc' = "load"
    /\ UNCHANGED <<argv, rates_file, file_before, response, fetched,
                   existing_rates, merged_rates, writes, exit_status, tvars, mvars>>

\* existing_rates = load_existing_rates(): [] with a warning when there is
\* no file
MainLoad ==
    /\ pc = "load"
    /\ rates_file.state # "garbage"
    /\ existing_rates' = rates_file.content
    /\ stdout' = stdout
                  \o (IF rates_file.state = "absent" THEN <<"Warning: not found">>
                      ELSE <<>>)
                  \o <<"Loaded">>
    /\ pc' = "merge"
    /\ UNCHANGED <<argv, rates_file, file_before, response, fetched, new_rates,
                   merged_rates, writes, exit_status, tvars, mvars>>

\* json.load raises on a file that is not JSON: nothing catches it
MainLoadRaises ==
    /\ pc = "load"
    /\ rates_file.state = "garbage"
    /\ exit_status' = 1
    /\ pc' = "exited"
    /\ UNCHANGED <<argv, rates_file, file_before, response, fetched, new_rates,
                   existing_rates, merged_rates, stdout, writes, tvars, mvars>>

\* merged_rates = merge_rates(existing_rates, new_rates), and the counts
MainMerge ==
    /\ pc = "merge"
    /\ merged_rates' = merge_rates(existing_rates, new_rates)
    /\ stdout' = stdout \o <<"Added">>
    /\ pc' = "save"
    /\ UNCHANGED <<argv, rates_file, file_before, response, fetched, new_rates,
                   existing_rates, writes, exit_status, tvars, mvars>>

\* save_rates(merged_rates), "Done!", and main returns
MainSave ==
    /\ pc = "save"
    /\ rates_file' = [state |-> "json", content |-> merged_rates]
    /\ writes' = writes + 1
    /\ stdout' = stdout \o <<"Saved", "Done!">>
    /\ exit_status' = 0
    /\ pc' = "exited"
    /\ UNCHANGED <<argv, file_before, response, fetched, new_rates,
                   existing_rates, merged_rates, tvars, mvars>>

NextMain ==
    \/ MainInvalidYear
    \/ MainYear
    \/ MainNoData
    \/ MainFetchRaises
    \/ MainFetch
    \/ MainTransform
    \/ MainLoad
    \/ MainLoadRaises
    \/ MainMerge
    \/ MainSave

SpecMain == InitMain /\ [][NextMain]_vars

-----------------------------------------------------------------------------
(* Properties of transform_bsi_data                                        *)

\* The key k of observation e is there and is not null, empty or zero.
Present(e, k) ==
    /\ k \in DOMAIN e
    /\ e[k] # PyNone
    /\ e[k] # PyStr(<<>>)
    /\ e[k] # PyNum(0)

\* An observation whose date, code and value are all present.
ValidObservation(e) == Present(e, "date") /\ Present(e, "code") /\ Present(e, "value")

\* The positions of the valid observations of bsi_data for date d and code c.
ValidAt(d, c) ==
    { i \in 1..Len(bsi_data) :
        /\ ValidObservation(bsi_data[i])
        /\ bsi_data[i]["date"] = d
        /\ bsi_data[i]["code"] = c }

SetMax(S) == CHOOSE m \in S : \A x \in S : x <= m

\* C5: when transform_bsi_data has returned, every entry has been looked at,
\* and a (date, code) pair is in the mapping exactly when some observation of
\* the input has that date and code with date, code and value all present and
\* truthy; nothing else (a zero, null, empty or missing field) adds a key.
TransformKeepsExactlyValid ==
    tpc = "returned" =>
        /\ idx = Len(bsi_data) + 1
        /\ \A i \in 1..Len(bsi_data) :
              ValidObservation(bsi_data[i]) =>
                /\ bsi_data[i]["date"] \in DOMAIN rates_by_date
                /\ bsi_data[i]["code"] \in DOMAIN rates_by_date[bsi_data[i]["date"]]
        /\ \A d \in DOMAIN rates_by_date :
              \A c \in DOMAIN rates_by_date[d] : ValidAt(d, c) # {}

\* C5 witness: a returned call whose input held a valid observation and one
\* with a value of zero for another date and code.
TransformDroppedZero ==
    /\ tpc = "returned"
    /\ \E i, j \in 1..Len(bsi_data) :
          /\ ValidObservation(bsi_data[i])
          /\ Present(bsi_data[j], "date") /\ Present(bsi_data[j], "code")
          /\ "value" \in DOMAIN bsi_data[j] /\ bsi_data[j]["value"] = PyNum(0)
          /\ bsi_data[j]["date"] # bsi_data[i]["date"]
          /\ bsi_data[j]["date"] \notin DOMAIN rates_by_date

\* C6: when transform_bsi_data has returned, the value under a date and code
\* is the value of the last valid observation of the input for that date and
\* code; observations that are not valid do not change it.
TransformLastValidWins ==
    tpc = "returned" =>
        \A d \in DOMAIN rates_by_date :
            \A c \in DOMAIN rates_by_date[d] :
                /\ ValidAt(d, c) # {}
                /\ rates_by_date[d][c] = bsi_data[SetMax(ValidAt(d, c))]["value"]

\* C6 witness: a returned call whose input held two valid observations for
\* one date and code, with different values.
TransformSawDuplicate ==
    /\ tpc = "returned"
    /\ \E d \in DOMAIN rates_by_date :
          \E c \in DOMAIN rates_by_date[d] :
              \E i, j \in ValidAt(d, c) :
                  i < j /\ bsi_data[i]["value"] # bsi_data[j]["value"]

-----------------------------------------------------------------------------
(* Properties of merge_rates                                               *)

\* the dates of a list of records
DatesOf(list) == { list[i]["date"] : i \in 1..Len(list) }

\* the positions of the records of a list for date d
PositionsOf(list, d) == { i \in 1..Len(list) : list[i]["date"] = d }

\* no date occurs twice in the list
UniqueDates(list) ==
    \A i, j \in 1..Len(list) : list[i]["date"] = list[j]["date"] => i = j

\* how many times record r occurs in the list
Occurrences(list, r) == Cardinality({ i \in 1..Len(list) : list[i] = r })

\* a and b hold the same records, each as many times
SameRecords(a, b) ==
    /\ Len(a) = Len(b)
    /\ \A i \in 1..Len(a) : Occurrences(a, a[i]) = Occurrences(b, a[i])

\* C1: the list merge_rates returns is in strictly descending order of date:
\* the date of every record is greater than the date of each record after
\* it, so no date occurs twice.
MergedStrictlyDescending ==
    mpc = "returned" =>
        \A i, j \in 1..Len(merged) :
            i < j => /\ merged[i]["date"] # merged[j]["date"]
                     /\ StrLess(merged[j]["date"].s, merged[i]["date"].s)

\* C1 witness: a call has returned three records from an `existing` that was
\* not in descending order and repeated a date.
MergedFromUnsorted ==
    /\ mpc = "returned"
    /\ calls = 1
    /\ Len(merged) = 3
    /\ ~UniqueDates(existing)
    /\ \E i \in 1..(Len(existing) - 1) :
          StrLess(existing[i]["date"].s, existing[i + 1]["date"].s)

\* C2: for every date of the updates, the list returned has exactly one
\* record of that date and its rates are the rates of the update, whatever
\* `existing` held for the date.
UpdateReplacesRates ==
    mpc = "returned" =>
        \A d \in DOMAIN new_rates_by_date :
            /\ Cardinality(PositionsOf(merged, d)) = 1
            /\ \A i \in PositionsOf(merged, d) :
                  merged[i]["rates"] = new_rates_by_date[d]

\* C2 witness: a call has returned for a date whose existing rates had a code
\* that the update lacks, and the record returned lacks the code.
UpdateDroppedCode ==
    /\ mpc = "returned"
    /\ \E d \in DOMAIN new_rates_by_date :
          \E j \in PositionsOf(existing, d) :
              \E c \in DOMAIN existing[j]["rates"] :
                  /\ c \notin DOMAIN new_rates_by_date[d]
                  /\ \A i \in PositionsOf(merged, d) :
                        c \notin DOMAIN merged[i]["rates"]

\* C3 as claimed: with no updates and a non-empty `existing`, the list
\* returned holds the records of `existing`, none added, removed or changed,
\* in descending order of date.
EmptyUpdatesReturnExisting ==
    (mpc = "returned" /\ new_rates_by_date = EmptyDict /\ existing # <<>>) =>
        /\ SameRecords(merged, existing)
        /\ \A i, j \in 1..Len(merged) :
              i < j => ~StrLess(merged[i]["date"].s, merged[j]["date"].s)

\* C3 amended: with no updates and an `existing` in which no date occurs
\* twice, the list returned holds the records of `existing`, none added,
\* removed or changed, in descending order of date.
EmptyUpdatesReturnUniqueExisting ==
    (mpc = "returned" /\ new_rates_by_date = EmptyDict /\ UniqueDates(existing)) =>
        /\ SameRecords(merged, existing)
        /\ \A i, j \in 1..Len(merged) :
              i < j => ~StrLess(merged[i]["date"].s, merged[j]["date"].s)

\* C3 witness: a call with no updates has returned, from an `existing` of
\* two dates in ascending order, a list that differs from it.
EmptyUpdatesResorted ==
    /\ mpc = "returned"
    /\ new_rates_by_date = EmptyDict
    /\ UniqueDates(existing)
    /\ Len(existing) >= 2
    /\ merged # existing

\* C4: the dates of the list returned are the dates of `existing` together
\* with the dates of the updates, and a record returned for a date without
\* an update is a record of `existing`.
MergedDatesAreUnion ==
    mpc = "returned" =>
        /\ DatesOf(merged) = DatesOf(existing) \cup DOMAIN new_rates_by_date
        /\ \A i \in 1..Len(merged) :
              merged[i]["date"] \notin DOMAIN new_rates_by_date =>
                  \E j \in 1..Len(existing) : existing[j] = merged[i]

\* C4 witness: a call has returned with a date only in the updates, a date
\* only in `existing` and a date in both.
MergedInsertedAndKept ==
    /\ mpc = "returned"
    /\ DOMAIN new_rates_by_date \ DatesOf(existing) # {}
    /\ DatesOf(existing) \ DOMAIN new_rates_by_date # {}
    /\ DatesOf(existing) \cap DOMAIN new_rates_by_date # {}

\* C8: merging the same updates into the list a call has returned returns
\* that list again.
MergeIdempotent ==
    (mpc = "returned" /\ calls >= 2) => merged = previous

\* C8 witness: the second call has returned, with updates and with a date
\* that has none.
MergedTwice ==
    /\ mpc = "returned"
    /\ calls >= 2
    /\ new_rates_by_date # EmptyDict
    /\ DatesOf(merged) \ DOMAIN new_rates_by_date # {}

\* C9: for a date that several records of `existing` have and no update has,
\* the list returned has one record, with the rates of the last of them.
LastDuplicateWins ==
    mpc = "returned" =>
        \A d \in DatesOf(existing) \ DOMAIN new_rates_by_date :
            Cardinality(PositionsOf(existing, d)) >= 2 =>
                /\ Cardinality(PositionsOf(merged, d)) = 1
                /\ \A i \in PositionsOf(merged, d) :
                      merged[i]["rates"] =
                          existing[SetMax(PositionsOf(existing, d))]["rates"]

\* C9 witness: a call has returned for an `existing` with two records of one
\* date, with different rates, and no update for the date.
MergedDuplicateDate ==
    /\ mpc = "returned"
    /\ \E i, j \in 1..Len(existing) :
          /\ i < j
          /\ existing[i]["date"] = existing[j]["date"]
          /\ existing[i]["rates"] # existing[j]["rates"]
          /\ existing[i]["date"] \notin DOMAIN new_rates_by_date

\* C10: a call of merge_rates changes neither `existing` nor the updates.
MergeLeavesInputs ==
    [][mpc = "call" =>
        /\ existing' = existing
        /\ new_rates_by_date' = new_rates_by_date]_vars

\* C10 witness: a call with updates has returned a list that differs from
\* its `existing`.
MergedDiffersFromExisting ==
    /\ mpc = "returned"
    /\ calls = 1
    /\ new_rates_by_date # EmptyDict
    /\ existing # <<>>
    /\ merged # existing

-----------------------------------------------------------------------------
(* Properties of main                                                      *)

\* message m has been printed
Printed(m) == \E i \in 1..Len(stdout) : stdout[i] = m

\* the run was given a year argument that is no integer
YearNotAnInteger == Len(argv) > 1 /\ ~ParsesAsInt(argv[2].s)

\* the fetch of the run yields no observation: a network error, an answer
\* without success, or an answer with no data
NoObservations ==
    \/ response.kind \in {"URLError", "exception"}
    \/ ~response.success
    \/ response.data = <<>>

\* C7: a run whose year argument is no integer or whose fetch yields no
\* observation exits with a status that is not zero without having loaded,
\* merged or saved, the rates file being what it was; and in every run the
\* file is written at most once, after the merge, with the merged list.
FailedRunLeavesFile ==
    /\ (pc = "exited" /\ (YearNotAnInteger \/ NoObservations)) =>
          /\ exit_status > 0
          /\ writes = 0
          /\ rates_file = file_before
          /\ ~Printed("Loaded") /\ ~Printed("Added") /\ ~Printed("Saved")
    /\ writes <= 1
    /\ writes = 0 => rates_file = file_before
    /\ writes = 1 =>
          /\ Printed("Added")
          /\ pc = "exited"
          /\ rates_file = [state |-> "json", content |-> merged_rates]

\* C7 witness: a run against a file that a save would have changed has
\* exited after a fetch that yielded no observation.
FailedRunExited ==
    /\ pc = "exited"
    /\ ~YearNotAnInteger
    /\ NoObservations
    /\ Printed("No data fetched from API")
    /\ file_before.state = "json"
    /\ file_before.content # merge_rates(file_before.content, EmptyDict)

====
